---- MODULE Spec2Model ----
(***************************************************************************)
(* Model of scanner/cli.py: a scanner that walks the libclang AST of one   *)
(* C++ translation unit and reports "side effect" expressions per          *)
(* function.                                                               *)
(*                                                                         *)
(* Strings are sequences of one-character strings.  An AST is a record     *)
(* [parent, label, line0]: nodes are numbered 1..n in depth-first          *)
(* pre-order (the order libclang's get_children() yields them), parent[i]  *)
(* is the parent of node i (0 for the root), label[i] holds what the code  *)
(* reads of the cursor (kind, canonical spelling, type).                   *)
(***************************************************************************)
EXTENDS Integers, Sequences, FiniteSets, TLC

VARIABLES pc, content, cursor, full_name, tu, side_effects, visited,
          no_side_effects, output

vars == <<pc, content, cursor, full_name, tu, side_effects, visited,
          no_side_effects, output>>

(***************************************************************************)
(* Bounds.                                                                 *)
(***************************************************************************)
\* longest file content (characters) of the text specification
MaxContent == 5
\* most nodes of a function's subtree (the function node included)
MaxNodes == 5
\* most nodes of one top-level cursor's subtree that are not plain nodes
MaxPattern == 2
\* most nodes of a translation unit (its root not counted) in the
\* specification of main
MaxTuNodes == 5

None == [kind |-> "None"]

IsNone(x) == x.kind = "None"

(***************************************************************************)
(* Python string primitives used by full_name_from_cursor.                 *)
(***************************************************************************)
Alphabet == {"a", " ", ";", "\n"}

IsSpace(c) == c \in {" ", "\n"}

RECURSIVE lstrip(_)
lstrip(s) ==
    IF s # <<>> /\ IsSpace(Head(s)) THEN lstrip(Tail(s)) ELSE s

RECURSIVE rstrip(_)
rstrip(s) ==
    IF s # <<>> /\ IsSpace(s[Len(s)]) THEN rstrip(SubSeq(s, 1, Len(s) - 1)) ELSE s

\* str.strip(): leading and trailing whitespace removed
strip(s) == rstrip(lstrip(s))

\* s[a:b] for 0 <= a, 0 <= b (indices beyond the end are clamped)
Slice(s, a, b) == SubSeq(s, a + 1, IF b < Len(s) THEN b ELSE Len(s))

endswith(s, c) == s # <<>> /\ s[Len(s)] = c

\* str.splitlines(): the lines without their line breaks; a final line
\* break opens no further line
RECURSIVE splitlinesFrom(_, _, _, _)
splitlinesFrom(s, i, cur, acc) ==
    IF i > Len(s) THEN (IF cur = <<>> THEN acc ELSE Append(acc, cur))
    ELSE IF s[i] = "\n" THEN splitlinesFrom(s, i + 1, <<>>, Append(acc, cur))
    ELSE splitlinesFrom(s, i + 1, Append(cur, s[i]), acc)

splitlines(s) == splitlinesFrom(s, 1, <<>>, <<>>)

\* the loop of lines 33-34: for l in range(start.line, end.line - 1)
RECURSIVE InteriorLines(_, _, _, _)
InteriorLines(lines, l, stop, acc) ==
    IF l >= stop THEN acc
    ELSE InteriorLines(lines, l + 1, stop, acc \o <<" ">> \o strip(lines[l + 1]))

\* a cursor is [location |-> [line], extent |-> [start, end |-> [line, column]]]
full_name_from_cursor(c, text) ==
    LET lines == splitlines(text)
        s == c.extent.start
        e == c.extent.end
        joined ==
            IF s.line = e.line
            THEN strip(Slice(lines[c.location.line], s.column - 1, e.column - 1))
            ELSE InteriorLines(lines, s.line, e.line - 1, strip(lines[s.line]))
                 \o <<" ">> \o strip(lines[e.line])
    IN  IF endswith(joined, ";")
        THEN strip(SubSeq(joined, 1, Len(joined) - 1))
        ELSE joined

(***************************************************************************)
(* What the scanner reads of a cursor.                                     *)
(*                                                                         *)
(* A type is the sequence of its levels, outermost first: `const int *` is *)
(* <<pointer, const int>>.  The type universe holds canonical types only.  *)
(***************************************************************************)
Level(k, c) == [kind |-> k, const |-> c]

InvalidType == <<Level("TypeKind.INVALID", FALSE)>>
VoidType == <<Level("TypeKind.VOID", FALSE)>>
IntType == <<Level("TypeKind.INT", FALSE)>>
ConstIntType == <<Level("TypeKind.INT", TRUE)>>
PointerTo(t) == <<Level("TypeKind.POINTER", FALSE)>> \o t

\* Type.get_pointee(): the pointee of a pointer, the invalid type otherwise
get_pointee(t) == IF t[1].kind = "TypeKind.POINTER" THEN Tail(t) ELSE InvalidType

is_const_qualified(t) == t[1].const

TypeKindOf(t) == t[1].kind

\* a variant of AssignTargetKinds: the members of TypeKind
AssignTargetTypeKinds == {"TypeKind.POINTER", "TypeKind.LVALUEREFERENCE"}

\* The names line 53 compares the pointee's type kind with: members of
\* CursorKind, not of TypeKind.
AssignTargetKinds == {"CursorKind.POINTER_TYPE", "CursorKind.LVALUE_REFERENCE"}

Label(k, sp, ty, op) == [kind |-> k, spelling |-> sp, type |-> ty, operand |-> op]

\* The unary `*e`: the expression's type is the pointee of its operand's
\* type (operand: the type of e, which the scanner never reads).
Deref(op) == Label("UNARY_OPERATOR", "operator*", get_pointee(op), op)

\* operand types of the dereferences of the universe:
\* int *, const int *, const int **
DerefOperandTypes ==
    {PointerTo(IntType), PointerTo(ConstIntType), PointerTo(PointerTo(ConstIntType))}

\* `pp = qq` with pp an int **
AssignLabel ==
    Label("BINARY_OPERATOR", "operator=", PointerTo(PointerTo(IntType)), InvalidType)
NewLabel == Label("CXX_NEW_EXPR", "", PointerTo(IntType), InvalidType)
ThrowLabel == Label("CXX_THROW_EXPR", "", VoidType, InvalidType)
PlainLabel == Label("COMPOUND_STMT", "", InvalidType, InvalidType)

\* the labels of the nodes that are not plain
PatternLabels ==
    {Deref(op) : op \in DerefOperandTypes} \cup {AssignLabel, NewLabel, ThrowLabel}

FunctionLabel == Label("FUNCTION_DECL", "f", InvalidType, InvalidType)

\* top-level cursors: a function, a method defined out of line, a class
TopLabels ==
    {FunctionLabel,
     Label("CXX_METHOD", "g", InvalidType, InvalidType),
     Label("CLASS_DECL", "C", InvalidType, InvalidType)}

(***************************************************************************)
(* Trees.                                                                  *)
(***************************************************************************)
Size(t) == Len(t.parent)

RECURSIVE IsAncestorOrSelf(_, _, _)
IsAncestorOrSelf(p, a, n) ==
    IF n = a THEN TRUE ELSE IF n = 0 THEN FALSE ELSE IsAncestorOrSelf(p, a, p[n])

\* parent vectors of the trees of n nodes numbered in pre-order: the parent
\* of node i is node i - 1 or one of its ancestors
Shapes(n) ==
    {p \in [1..n -> 0..(n - 1)] :
        /\ p[1] = 0
        /\ \A i \in 2..n : p[i] >= 1 /\ p[i] < i /\ IsAncestorOrSelf(p, p[i], i - 1)}

ShapeTable ==
    [n \in 1..(IF MaxNodes > MaxTuNodes THEN MaxNodes ELSE MaxTuNodes) |-> Shapes(n)]

\* the sets of nodes of a tree of n nodes that may carry a pattern label
PatternSets(n) == {S \in SUBSET (2..n) : Cardinality(S) <= MaxPattern}

\* the tree of shape p whose root carries r, whose node i carries l[i] when
\* l has one, and whose other nodes are plain
MakeTree(p, r, l, line0) ==
    [parent |-> p,
     label |-> [i \in 1..Len(p) |->
                    IF i = 1 THEN r ELSE IF i \in DOMAIN l THEN l[i] ELSE PlainLabel],
     line0 |-> line0]

RECURSIVE ChildrenFrom(_, _, _)
ChildrenFrom(t, n, i) ==
    IF i > Size(t) THEN <<>>
    ELSE IF t.parent[i] = n THEN <<i>> \o ChildrenFrom(t, n, i + 1)
    ELSE ChildrenFrom(t, n, i + 1)

\* a variant of get_children: the children in reverse order
RECURSIVE ReverseSeq(_)
ReverseSeq(q) == IF q = <<>> THEN <<>> ELSE Append(ReverseSeq(Tail(q)), Head(q))

get_children_reversed(t, n) == ReverseSeq(ChildrenFrom(t, n, n + 1))

\* Cursor.get_children(): the children in source order
get_children(t, n) == ChildrenFrom(t, n, n + 1)

Descendants(t, n) == {i \in 1..Size(t) : i # n /\ IsAncestorOrSelf(t.parent, n, i)}

Subtree(t, n) == Descendants(t, n) \cup {n}

LastLine(t, n) == CHOOSE i \in Subtree(t, n) : \A j \in Subtree(t, n) : j <= i

\* The source text of a tree: the first token of node i is alone on line
\* line0 + i, so that a node's extent runs from its own line to the line of
\* its last descendant; line0 blank lines precede the tree.
RECURSIVE Repeat(_, _)
Repeat(s, k) == IF k = 0 THEN <<>> ELSE s \o Repeat(s, k - 1)

SourceOf(t) == Repeat(<<"\n">>, t.line0) \o Repeat(<<"a", "\n">>, Size(t))

Extent(t, n) ==
    [start |-> [line |-> t.line0 + n, column |-> 1],
     end |-> [line |-> t.line0 + LastLine(t, n), column |-> 2]]

CursorOf(t, n) == [location |-> [line |-> t.line0 + n], extent |-> Extent(t, n)]

(***************************************************************************)
(* has_side_effects, scan_function                                         *)
(***************************************************************************)
SideEffectInfo(k, loc, code) == [kind |-> k, location |-> loc, code |-> code]

InfoOf(k, t, n) ==
    SideEffectInfo(k, Extent(t, n), full_name_from_cursor(CursorOf(t, n), SourceOf(t)))

\* a variant of OwnKind: the last branch taken for every other kind
OwnKindElse(c) ==
    IF c.kind = "UNARY_OPERATOR"
    THEN IF c.spelling = "operator*"
            /\ ~is_const_qualified(get_pointee(c.type))
         THEN "DEREFERENCE_NON_CONST_POINTER"
         ELSE "None"
    ELSE IF c.kind = "BINARY_OPERATOR"
    THEN IF c.spelling \in {"operator=", "operator&="}
            /\ TypeKindOf(get_pointee(c.type)) \in AssignTargetKinds
         THEN "ASSIGN_TO_POINTER_OR_REFERENCE"
         ELSE "None"
    ELSE IF c.kind = "CXX_NEW_EXPR"
    THEN "DYNAMIC_MEMORY_ALLOCATION"
    ELSE "THROW_EXCEPTION"

\* lines 41-70: the kind of side effect the cursor itself is, "None" when
\* no branch returns
OwnKind(c) ==
    IF c.kind = "UNARY_OPERATOR"
    THEN IF c.spelling = "operator*"
            /\ ~is_const_qualified(get_pointee(c.type))
         THEN "DEREFERENCE_NON_CONST_POINTER"
         ELSE "None"
    ELSE IF c.kind = "BINARY_OPERATOR"
    THEN IF c.spelling \in {"operator=", "operator&="}
            /\ TypeKindOf(get_pointee(c.type)) \in AssignTargetKinds
         THEN "ASSIGN_TO_POINTER_OR_REFERENCE"
         ELSE "None"
    ELSE IF c.kind = "CXX_NEW_EXPR"
    THEN "DYNAMIC_MEMORY_ALLOCATION"
    ELSE IF c.kind = "CXX_THROW_EXPR"
    THEN "THROW_EXCEPTION"
    ELSE "None"

\* what has_side_effects returns for the cursor itself, before it looks at
\* the children
OwnSideEffect(t, n) ==
    LET k == OwnKind(t.label[n])
    IN  IF k = "None" THEN None ELSE InfoOf(k, t, n)

RECURSIVE has_side_effects(_, _)
RECURSIVE FirstOfChildren(_, _, _)

\* lines 72-77: the first side effect among the children, in order
FirstOfChildren(t, kids, i) ==
    IF i > Len(kids) THEN None
    ELSE LET side_effect == has_side_effects(t, kids[i])
         IN  IF ~IsNone(side_effect) THEN side_effect
             ELSE FirstOfChildren(t, kids, i + 1)

has_side_effects(t, n) ==
    LET own == OwnSideEffect(t, n)
    IN  IF ~IsNone(own) THEN own ELSE FirstOfChildren(t, get_children(t, n), 1)

RECURSIVE ScanChildren(_, _, _)
ScanChildren(t, kids, i) ==
    IF i > Len(kids) THEN <<>>
    ELSE LET side_effect == has_side_effects(t, kids[i])
         IN  (IF ~IsNone(side_effect) THEN <<side_effect>> ELSE <<>>)
                 \o ScanChildren(t, kids, i + 1)

\* a variant of scan_function: every matching node below the function, not
\* only the first of each child
RECURSIVE AllFrom(_, _, _)
AllFrom(t, n, i) ==
    IF i > Size(t) THEN <<>>
    ELSE (IF i \in Descendants(t, n) /\ ~IsNone(OwnSideEffect(t, i))
          THEN <<OwnSideEffect(t, i)>> ELSE <<>>) \o AllFrom(t, n, i + 1)

scan_function_all(t, n) == AllFrom(t, n, 1)

scan_function(t, n) == ScanChildren(t, get_children(t, n), 1)

(***************************************************************************)
(* print_side_effect_info, main                                            *)
(***************************************************************************)
\* line 95: location.start.file.name
FileName == "file.cpp"

RECURSIVE PrintFindings(_, _)
PrintFindings(infos, i) ==
    IF i > Len(infos) THEN <<>>
    ELSE LET side_effect == infos[i]
             location == side_effect.location
         IN  << <<"Side effect found: ", side_effect.kind>>,
                <<"Location: ", FileName, location.start.line, location.start.column,
                  location.end.line, location.end.column>>,
                <<"Code: ", side_effect.code>>,
                <<>> >>
             \o PrintFindings(infos, i + 1)

\* the lines print_side_effect_info writes
print_side_effect_info(function_name, infos) ==
    << <<"Funciton: ", function_name>> >> \o PrintFindings(infos, 1)

\* a variant of IsScannedKind: free functions only
IsScannedKindFunctionOnly(k) == k = "FUNCTION_DECL"

\* line 110: the cursors main scans
IsScannedKind(k) == k = "CXX_METHOD" \/ k = "FUNCTION_DECL"

\* lines 115-116
SummaryLines(flag) == IF flag THEN << <<"No side effects found.">> >> ELSE <<>>

\* a variant of FlagAfter: the flag tells of the last function only
FlagAfterLast(flag, infos) == infos = <<>>

\* line 112-113: the flag after a function's scan
FlagAfter(flag, infos) == IF infos # <<>> THEN FALSE ELSE flag

(***************************************************************************)
(* The function f of the documentation's scenario:                         *)
(*   void f(int* p) { int x = *p; int* q = nullptr;                        *)
(*                    int* r = new int(5); throw 1; }                      *)
(***************************************************************************)
Other(k) == Label(k, "", InvalidType, InvalidType)

ExampleF ==
    [parent |-> <<0, 1, 1, 3, 4, 5, 6, 7, 3, 9, 10, 3, 12, 13, 14, 3, 16>>,
     label |-> <<FunctionLabel, Other("PARM_DECL"), Other("COMPOUND_STMT"),
                 Other("DECL_STMT"), Other("VAR_DECL"), Other("UNEXPOSED_EXPR"),
                 Deref(PointerTo(IntType)), Other("DECL_REF_EXPR"),
                 Other("DECL_STMT"), Other("VAR_DECL"),
                 Other("CXX_NULL_PTR_LITERAL_EXPR"),
                 Other("DECL_STMT"), Other("VAR_DECL"), NewLabel,
                 Other("INTEGER_LITERAL"),
                 ThrowLabel, Other("INTEGER_LITERAL")>>,
     line0 |-> 0]

(***************************************************************************)
(* Inputs of full_name_from_cursor.                                        *)
(***************************************************************************)
Strings(maxlen) == UNION {[1..n -> Alphabet] : n \in 0..maxlen}

\* the extents a cursor of the text can have: inside the file, starting on
\* the first character of a token and ending behind the last character of
\* one; the cursor's location lies within its extent
CursorsOf(text) ==
    LET lines == splitlines(text) IN
    {[location |-> [line |-> ll],
      extent |-> [start |-> [line |-> sl, column |-> sc],
                  end |-> [line |-> el, column |-> ec]]] :
        <<sl, el, sc, ec, ll>> \in
            {q \in (1..Len(lines)) \X (1..Len(lines)) \X (1..MaxContent)
                    \X (2..(MaxContent + 1)) \X (1..Len(lines)) :
                /\ q[1] <= q[2]
                /\ q[5] >= q[1] /\ q[5] <= q[2]
                /\ q[3] <= Len(lines[q[1]])
                /\ q[4] <= Len(lines[q[2]]) + 1
                /\ (q[1] = q[2] => q[3] < q[4])
                /\ ~IsSpace(lines[q[1]][q[3]])
                /\ ~IsSpace(lines[q[2]][q[4] - 1])}}

NoCursor ==
    [location |-> [line |-> 0],
     extent |-> [start |-> [line |-> 0, column |-> 0],
                 end |-> [line |-> 0, column |-> 0]]]

NoTree == [parent |-> <<>>, label |-> <<>>, line0 |-> 0]

(***************************************************************************)
(* Specification of main: the top-level cursors come one at a time.        *)
(* visited records, for every top-level cursor met so far, its kind, its   *)
(* spelling, the number of its nodes and what scan_function finds in it.   *)
(***************************************************************************)
RECURSIVE NodesOf(_, _)
NodesOf(v, i) == IF i > Len(v) THEN 0 ELSE v[i].size + NodesOf(v, i + 1)

Init ==
    /\ pc = "main_loop"
    /\ content = <<>>
    /\ cursor = NoCursor
    /\ full_name = <<>>
    /\ tu = NoTree
    /\ side_effects = <<>>
    /\ visited = <<>>
    /\ no_side_effects = TRUE
    /\ output = <<>>

\* lines 109-114: one iteration of the loop over the top-level cursors
MainIteration ==
    /\ pc = "main_loop"
    /\ \E n \in 1..(MaxTuNodes - NodesOf(visited, 1)) :
       \E p \in ShapeTable[n] : \E r \in TopLabels :
       \E S \in PatternSets(n) : \E l \in [S -> PatternLabels] :
       \E found \in {scan_function(MakeTree(p, r, l, NodesOf(visited, 1)), 1)} :
       \E scanned \in {IsScannedKind(r.kind)} :
            /\ visited' = Append(visited,
                    [kind |-> r.kind, spelling |-> r.spelling, size |-> n,
                     findings |-> found])
            /\ side_effects' = IF scanned THEN found ELSE side_effects
            /\ no_side_effects' =
                    IF scanned THEN FlagAfter(no_side_effects, found) ELSE no_side_effects
            /\ output' =
                    IF scanned /\ found # <<>>
                    THEN output \o print_side_effect_info(r.spelling, found)
                    ELSE output
    /\ UNCHANGED <<pc, content, cursor, full_name, tu>>

\* lines 115-116: after the loop
MainFinish ==
    /\ pc = "main_loop"
    /\ output' = output \o SummaryLines(no_side_effects)
    /\ pc' = "main_done"
    /\ UNCHANGED <<content, cursor, full_name, tu, side_effects, visited, no_side_effects>>

Next == MainIteration \/ MainFinish

Spec == Init /\ [][Next]_vars

(***************************************************************************)
(* Specification of scan_function on one function.                         *)
(***************************************************************************)
InitScan ==
    /\ pc = "scan_start"
    /\ content = <<>>
    /\ cursor = NoCursor
    /\ full_name = <<>>
    /\ \/ \E n \in 1..MaxNodes : \E p \in ShapeTable[n] :
          \E S \in PatternSets(n) : \E l \in [S -> PatternLabels] :
            tu = MakeTree(p, FunctionLabel, l, 0)
       \/ tu = ExampleF
    /\ side_effects = <<>>
    /\ visited = <<>>
    /\ no_side_effects = TRUE
    /\ output = <<>>

ScanFunction ==
    /\ pc = "scan_start"
    /\ side_effects' = scan_function(tu, 1)
    /\ pc' = "scan_done"
    /\ UNCHANGED <<content, cursor, full_name, tu, visited, no_side_effects, output>>

NextScan == ScanFunction

SpecScan == InitScan /\ [][NextScan]_vars

(***************************************************************************)
(* Specification of full_name_from_cursor on one file and one cursor.      *)
(***************************************************************************)
InitText ==
    /\ pc = "text_start"
    /\ content \in Strings(MaxContent)
    /\ cursor \in CursorsOf(content)
    /\ full_name = <<>>
    /\ tu = NoTree
    /\ side_effects = <<>>
    /\ visited = <<>>
    /\ no_side_effects = TRUE
    /\ output = <<>>

FullName ==
    /\ pc = "text_start"
    /\ full_name' = full_name_from_cursor(cursor, content)
    /\ pc' = "text_done"
    /\ UNCHANGED <<content, cursor, tu, side_effects, visited, no_side_effects, output>>

NextText == FullName

SpecText == InitText /\ [][NextText]_vars

(***************************************************************************)
(* Vocabulary of the claims.                                               *)
(***************************************************************************)
\* the node a finding of the scanned function is located at
NodeOf(info) == info.location.start.line - tu.line0

\* node n, looked at by itself, matches one of the patterns
MatchesAt(t, n) == OwnKind(t.label[n]) # "None"

SubtreeMatches(t, n) == \E m \in Subtree(t, n) : MatchesAt(t, m)

\* the first node of n's subtree, in pre-order, that matches
FirstMatch(t, n) ==
    CHOOSE m \in Subtree(t, n) :
        MatchesAt(t, m) /\ \A k \in Subtree(t, n) : MatchesAt(t, k) => m <= k

DirectChildren(t) == {c \in 1..Size(t) : t.parent[c] = 1}

PatternKinds == {"UNARY_OPERATOR", "BINARY_OPERATOR", "CXX_NEW_EXPR", "CXX_THROW_EXPR"}

IsSummaryLine(line) == Len(line) = 1 /\ line[1] = "No side effects found."

SummaryPrinted == \E i \in 1..Len(output) : IsSummaryLine(output[i])

FunctionKinds == {"FUNCTION_DECL", "CXX_METHOD"}

\* some function main scanned has a finding
AnyFinding ==
    \E i \in 1..Len(visited) :
        visited[i].kind \in FunctionKinds /\ visited[i].findings # <<>>

(***************************************************************************)
(* C1: when the body block of a function holds two statements that each    *)
(* contain a matching node, scan_function returns a finding for each, the  *)
(* earlier statement's first.                                              *)
(***************************************************************************)
C1_TwoStatementsTwoFindings ==
    pc = "scan_done" =>
        \A b \in DirectChildren(tu) : \A s1, s2 \in 1..Size(tu) :
            ( /\ tu.label[b].kind = "COMPOUND_STMT"
              /\ tu.parent[s1] = b /\ tu.parent[s2] = b /\ s1 < s2
              /\ SubtreeMatches(tu, s1) /\ SubtreeMatches(tu, s2) )
            => \E i, j \in 1..Len(side_effects) :
                    /\ i < j
                    /\ NodeOf(side_effects[i]) \in Subtree(tu, s1)
                    /\ NodeOf(side_effects[j]) \in Subtree(tu, s2)

(***************************************************************************)
(* C2: scanning f of the documentation's scenario returns exactly three    *)
(* findings: the dereference *p, the allocation new int(5), the throw.     *)
(***************************************************************************)
C2_ScenarioThreeFindings ==
    (pc = "scan_done" /\ tu = ExampleF) =>
        /\ Len(side_effects) = 3
        /\ side_effects[1].kind = "DEREFERENCE_NON_CONST_POINTER"
        /\ NodeOf(side_effects[1]) = 7
        /\ side_effects[2].kind = "DYNAMIC_MEMORY_ALLOCATION"
        /\ NodeOf(side_effects[2]) = 14
        /\ side_effects[3].kind = "THROW_EXCEPTION"
        /\ NodeOf(side_effects[3]) = 16

(***************************************************************************)
(* C3: for a unary pointer dereference, has_side_effects returns a         *)
(* DEREFERENCE_NON_CONST_POINTER finding for that node exactly when the    *)
(* pointee type of the dereferenced operand is not const-qualified.        *)
(***************************************************************************)
C3_DerefFindingIffPointeeNotConst ==
    pc = "scan_done" =>
        \A n \in 1..Size(tu) :
            (tu.label[n].kind = "UNARY_OPERATOR" /\ tu.label[n].spelling = "operator*")
            => LET r == has_side_effects(tu, n)
               IN  ( /\ r.kind = "DEREFERENCE_NON_CONST_POINTER"
                     /\ r.location = Extent(tu, n) )
                   <=> ~is_const_qualified(get_pointee(tu.label[n].operand))

(***************************************************************************)
(* C4: the code text is the slice of the file over the extent: on one      *)
(* line the columns [start, end); over several lines the start line from   *)
(* the start column on, the interior lines, the end line up to the end     *)
(* column, joined by single spaces; one trailing ; removed.  (Compared up  *)
(* to the whitespace around the pieces, which the function strips.)        *)
(***************************************************************************)
RECURSIVE ClaimedInterior(_, _, _)
ClaimedInterior(lines, l, last) ==
    IF l > last THEN <<>> ELSE <<" ">> \o strip(lines[l]) \o ClaimedInterior(lines, l + 1, last)

ClaimedText(c, text) ==
    LET lines == splitlines(text)
        s == c.extent.start
        e == c.extent.end
        slice ==
            IF s.line = e.line
            THEN strip(Slice(lines[s.line], s.column - 1, e.column - 1))
            ELSE strip(Slice(lines[s.line], s.column - 1, Len(lines[s.line])))
                 \o ClaimedInterior(lines, s.line + 1, e.line - 1)
                 \o <<" ">> \o strip(Slice(lines[e.line], 0, e.column - 1))
    IN  IF endswith(slice, ";") THEN strip(SubSeq(slice, 1, Len(slice) - 1)) ELSE slice

C4_CodeIsExtentSlice ==
    pc = "text_done" => full_name = ClaimedText(cursor, content)

(***************************************************************************)
(* C5: main prints "No side effects found." if and only if no scanned      *)
(* function produced a finding, and then it is the only output.            *)
(***************************************************************************)
C5_SummaryIffNoFinding ==
    /\ pc = "main_loop" => ~SummaryPrinted
    /\ pc = "main_done" =>
        /\ SummaryPrinted <=> ~AnyFinding
        /\ SummaryPrinted => (Len(output) = 1)

C5_Witness ==
    /\ pc = "main_done"
    /\ \E i \in 1..Len(visited) : visited[i].kind \in FunctionKinds /\ visited[i].size >= 2
    /\ ~AnyFinding
    /\ Len(output) = 1 /\ IsSummaryLine(output[1])

(***************************************************************************)
(* C6: scan_function returns at most one finding per direct child of the   *)
(* function node, and never a finding for a node strictly inside the       *)
(* subtree of another reported node.                                       *)
(***************************************************************************)
C6_OnePerChildNoneNested ==
    pc = "scan_done" =>
        /\ \A c \in DirectChildren(tu) :
            Cardinality({i \in 1..Len(side_effects) :
                            NodeOf(side_effects[i]) \in Subtree(tu, c)}) <= 1
        /\ \A i, j \in 1..Len(side_effects) :
            NodeOf(side_effects[j]) \notin Descendants(tu, NodeOf(side_effects[i]))

C6_Witness ==
    /\ pc = "scan_done"
    /\ \E i \in 1..Len(side_effects) :
        \E m \in Descendants(tu, NodeOf(side_effects[i])) : MatchesAt(tu, m)

(***************************************************************************)
(* C7: the output is one block per scanned function (a top-level function  *)
(* or method) that has a finding, in the order the functions come; a block *)
(* is the function's name followed by its findings in discovery order;     *)
(* other top-level cursors and functions without findings print nothing.   *)
(***************************************************************************)
BlockOf(e) ==
    [k \in 1..(1 + 4 * Len(e.findings)) |->
        IF k = 1 THEN <<"Funciton: ", e.spelling>>
        ELSE LET f == e.findings[((k - 2) \div 4) + 1]
                 j == (k - 2) % 4
             IN  IF j = 0 THEN <<"Side effect found: ", f.kind>>
                 ELSE IF j = 1
                 THEN <<"Location: ", FileName, f.location.start.line,
                        f.location.start.column, f.location.end.line,
                        f.location.end.column>>
                 ELSE IF j = 2 THEN <<"Code: ", f.code>>
                 ELSE <<>>]

RECURSIVE ExpectedBlocks(_, _)
ExpectedBlocks(v, i) ==
    IF i > Len(v) THEN <<>>
    ELSE (IF v[i].kind \in FunctionKinds /\ v[i].findings # <<>>
          THEN BlockOf(v[i]) ELSE <<>>) \o ExpectedBlocks(v, i + 1)

\* the output without the summary line main may end it with
OutputBlocks ==
    IF pc = "main_done" /\ output # <<>> /\ IsSummaryLine(output[Len(output)])
    THEN SubSeq(output, 1, Len(output) - 1)
    ELSE output

C7_BlocksOfScannedFunctionsInOrder ==
    pc \in {"main_loop", "main_done"} => OutputBlocks = ExpectedBlocks(visited, 1)

C7_Witness ==
    /\ pc = "main_done"
    /\ \E i, j \in 1..Len(visited) :
        /\ i < j
        /\ visited[i].kind \in FunctionKinds /\ visited[j].kind \in FunctionKinds
        /\ visited[i].spelling # visited[j].spelling
        /\ Len(visited[i].findings) = 2
        /\ visited[i].findings[1].kind # visited[i].findings[2].kind
        /\ Len(visited[j].findings) = 1
        /\ output = BlockOf(visited[i]) \o BlockOf(visited[j])

(***************************************************************************)
(* C8: a function without any dereference, assignment, new or throw node   *)
(* yields no finding; every finding stems from a node of one of these      *)
(* kinds below a direct child of the function node.                        *)
(***************************************************************************)
C8_FindingsStemFromPatternNodes ==
    pc = "scan_done" =>
        /\ \A i \in 1..Len(side_effects) :
            /\ NodeOf(side_effects[i]) \in Descendants(tu, 1)
            /\ tu.label[NodeOf(side_effects[i])].kind \in PatternKinds
        /\ (\A n \in Descendants(tu, 1) : tu.label[n].kind \notin PatternKinds)
            => side_effects = <<>>

C8_Witness ==
    /\ pc = "scan_done"
    /\ Size(tu) >= 4
    /\ \A n \in Descendants(tu, 1) : tu.label[n].kind \notin PatternKinds
    /\ side_effects = <<>>

(***************************************************************************)
(* C9: the finding of a direct child c is that of the first matching node  *)
(* in the pre-order of c's subtree, located at that node's own extent;     *)
(* there is none exactly when no node of the subtree matches; the function *)
(* node itself yields none.                                                *)
(***************************************************************************)
C9_FirstMatchInPreOrder ==
    pc = "scan_done" =>
        LET hit == {c \in DirectChildren(tu) : SubtreeMatches(tu, c)}
            rank(c) == Cardinality({d \in hit : d <= c})
        IN  /\ Len(side_effects) = Cardinality(hit)
            /\ \A c \in hit :
                LET m == FirstMatch(tu, c)
                    f == side_effects[rank(c)]
                IN  /\ f.location = Extent(tu, m)
                    /\ f.kind = OwnKind(tu.label[m])
            /\ \A i \in 1..Len(side_effects) : NodeOf(side_effects[i]) # 1

C9_Witness ==
    /\ pc = "scan_done"
    /\ \E c, x, g, y \in 1..Size(tu) :
        /\ tu.parent[c] = 1 /\ tu.parent[x] = c /\ tu.parent[g] = x /\ tu.parent[y] = c
        /\ x < y
        /\ ~MatchesAt(tu, c) /\ ~MatchesAt(tu, x) /\ MatchesAt(tu, g) /\ MatchesAt(tu, y)
        /\ tu.label[g].kind # tu.label[y].kind
        /\ Len(side_effects) = 1
        /\ side_effects[1].location = Extent(tu, g)

(***************************************************************************)
(* C10: every finding is a dereference, an allocation or a throw: OTHER    *)
(* and ASSIGN_TO_POINTER_OR_REFERENCE are never emitted.                   *)
(***************************************************************************)
C10_OnlyThreeKinds ==
    pc = "scan_done" =>
        \A i \in 1..Len(side_effects) :
            side_effects[i].kind \in
                {"DEREFERENCE_NON_CONST_POINTER", "DYNAMIC_MEMORY_ALLOCATION",
                 "THROW_EXCEPTION"}

C10_Witness ==
    /\ pc = "scan_done"
    /\ \E c, d \in 1..Size(tu) :
        /\ tu.parent[c] = 1 /\ tu.parent[d] = c
        /\ tu.label[c] = AssignLabel
        /\ TypeKindOf(get_pointee(tu.label[c].type)) = "TypeKind.POINTER"
        /\ tu.label[d] = ThrowLabel
        /\ \E i \in 1..Len(side_effects) : NodeOf(side_effects[i]) = d

====
